---- MODULE Spec2Model ----
(***************************************************************************)
(* A model of the systemet client library (src/src/lib.rs): the response   *)
(* classifier send_request, the Error type and its Display, the            *)
(* SearchRequest builder and its serialization, and the two date codecs.   *)
(*                                                                         *)
(* Text is a sequence of tokens (TLA+ strings): a single character where   *)
(* the code looks at characters (dates), a whole chunk elsewhere.          *)
(* Concatenation of text is \o.                                            *)
(***************************************************************************)
EXTENDS Integers, Sequences, FiniteSets, TLC

VARIABLES
    pc,          \* client: position of the running call in send_request
    op,          \* client: the operation called (fixes the success type T)
    url,         \* client: the URL of the GET request
    gets,        \* client: GET requests issued by the running call
    parses,      \* client: the types serde_json::from_str was called with, in order
    body,        \* client: the response body text received
    result,      \* client: the Result<T, Error> the call returned
    shown,       \* client: the Display rendering of the returned error
    req,         \* builder: the SearchRequest value
    ncalls,      \* builder: setter calls chained so far
    last,        \* builder: per field, the argument of its setter's latest call
    json,        \* builder: the serialization of req
    date,        \* date codec: the calendar date given to serialize
    wire,        \* date codec: the JSON value on the wire
    decoded      \* date codec: what deserialize returned for wire

vars == <<pc, op, url, gets, parses, body, result, shown,
          req, ncalls, last, json, date, wire, decoded>>

clientVars == <<pc, op, url, gets, parses, body, result, shown>>
builderVars == <<req, ncalls, last, json>>
dateVars == <<date, wire, decoded>>

----------------------------------------------------------------------------
(* Bounds of the model *)

\* API error entries in a response body: 0..MaxErrors
MaxErrors == 3
\* products (or stores) in a list body: 0..MaxItems
MaxItems == 2
\* setter calls chained on one SearchRequest
MaxSetterCalls == 2
\* the calendar years dates are drawn from: YearLo..YearHi
YearLo == 2019
YearHi == 2020

----------------------------------------------------------------------------
(* Option<T>, Result<T, E> *)

None == <<>>
Some(x) == <<x>>
IsSome(o) == o /= <<>>

Ok(x) == <<"Ok", x>>
Err(e) == <<"Err", e>>
IsOk(r) == r[1] = "Ok"

----------------------------------------------------------------------------
(* JSON text, as serde_json reads and writes it.  A value is <<t, v>>: t the   *)
(* kind, v the payload.  An object keeps its members in document order.      *)
(* Garbage is a body that is no JSON text at all.                            *)

JNull == <<"null", <<>>>>
JBool(b) == <<"bool", b>>
\* an integer literal
JInt(n) == <<"number", [int |-> TRUE, wide |-> FALSE, n |-> n]>>
\* an integer literal beyond the i32 range: 2^31 + n
JLong(n) == <<"number", [int |-> TRUE, wide |-> TRUE, n |-> n]>>
\* a literal with a fraction, n counted in tenths (125 is 12.5)
JFloat(n) == <<"number", [int |-> FALSE, wide |-> FALSE, n |-> n]>>
JStr(s) == <<"string", s>>
JArr(items) == <<"array", items>>
JObj(members) == <<"object", members>>
Member(k, val) == <<k, val>>
Garbage(s) == <<"garbage", s>>

\* serde's name for what it found, used in "invalid type" errors
Unexpected(j) ==
    CASE j[1] = "null" -> "null"
      [] j[1] = "bool" -> "boolean"
      [] j[1] = "number" -> IF j[2].int THEN "integer" ELSE "floating point"
      [] j[1] = "string" -> "string"
      [] j[1] = "array" -> "sequence"
      [] j[1] = "object" -> "map"

InvalidType(j, expected) == Err(<<"invalid type: ", Unexpected(j), ", expected ", expected>>)

----------------------------------------------------------------------------
(* chrono: formatting and parsing a date-time with a strftime pattern *)

\* const FORMAT: "%Y-%m-%dT%H:%M:%S", item by item
FORMAT == <<"%Y", "-", "%m", "-", "%d", "T", "%H", ":", "%M", ":", "%S">>

Specifiers == {"%Y", "%m", "%d", "%H", "%M", "%S"}

DigitChars == <<"0", "1", "2", "3", "4", "5", "6", "7", "8", "9">>
IsDigit(c) == \E i \in 1..10 : DigitChars[i] = c
DigitVal(c) == (CHOOSE i \in 1..10 : DigitChars[i] = c) - 1

RECURSIVE Digits(_)
Digits(n) == IF n < 10 THEN <<DigitChars[n + 1]>>
             ELSE Digits(n \div 10) \o <<DigitChars[(n % 10) + 1]>>

RECURSIVE ZeroPad(_, _)
ZeroPad(s, w) == IF Len(s) >= w THEN s ELSE ZeroPad(<<"0">> \o s, w)

\* %Y is four digits, zero padded; a year outside 0..9999 carries its sign
YearText(y) ==
    IF 0 <= y /\ y < 10000 THEN ZeroPad(Digits(y), 4)
    ELSE IF y < 0 THEN <<"-">> \o ZeroPad(Digits(0 - y), 4)
    ELSE <<"+">> \o ZeroPad(Digits(y), 4)

FormatItem(item, dt) ==
    IF item \in Specifiers
    THEN IF item = "%Y" THEN YearText(dt[item]) ELSE ZeroPad(Digits(dt[item]), 2)
    ELSE <<item>>

RECURSIVE FormatFrom(_, _, _)
FormatFrom(fmt, k, dt) ==
    IF k > Len(fmt) THEN <<>> ELSE FormatItem(fmt[k], dt) \o FormatFrom(fmt, k + 1, dt)

\* DateTime::format(fmt), rendered with {}
Format(fmt, dt) == FormatFrom(fmt, 1, dt)

IsLeap(y) == (y % 4 = 0 /\ y % 100 /= 0) \/ y % 400 = 0

DaysInMonth(y, m) ==
    IF m = 2 THEN (IF IsLeap(y) THEN 29 ELSE 28)
    ELSE IF m \in {4, 6, 9, 11} THEN 30 ELSE 31

ValidDate(y, m, d) == m \in 1..12 /\ d >= 1 /\ d <= DaysInMonth(y, m)

\* Date::and_hms(h, m, s)
and_hms(d, h, mi, s) ==
    [x \in Specifiers |->
        CASE x = "%Y" -> d.y [] x = "%m" -> d.m [] x = "%d" -> d.d
          [] x = "%H" -> h [] x = "%M" -> mi [] x = "%S" -> s]

\* DateTime::date(): the time of day is dropped
DateOf(dt) == [y |-> dt["%Y"], m |-> dt["%m"], d |-> dt["%d"]]

TOO_SHORT == <<"premature end of input">>
INVALID == <<"input contains invalid characters">>
OUT_OF_RANGE == <<"input is out of range">>
TOO_LONG == <<"trailing input">>

\* the digits at s[pos..], at most maxw of them
RECURSIVE DigitRun(_, _, _)
DigitRun(s, pos, maxw) ==
    IF maxw = 0 \/ pos > Len(s) \/ ~IsDigit(s[pos]) THEN 0
    ELSE 1 + DigitRun(s, pos + 1, maxw - 1)

RECURSIVE NumberValue(_, _, _)
NumberValue(s, pos, n) ==
    IF n = 0 THEN 0
    ELSE NumberValue(s, pos, n - 1) * 10 + DigitVal(s[pos + n - 1])

\* scan::number(s, 1, maxw): one to maxw digits
ScanNumber(s, pos, maxw) ==
    IF pos > Len(s) THEN Err(TOO_SHORT)
    ELSE LET n == DigitRun(s, pos, maxw)
         IN IF n = 0 THEN Err(INVALID)
            ELSE Ok([n |-> NumberValue(s, pos, n), next |-> pos + n])

\* a numeric item: a year may carry a sign and then takes every digit that
\* follows, an unsigned year at most four, every other field at most two
ScanNumeric(item, s, pos) ==
    IF item = "%Y"
    THEN IF pos <= Len(s) /\ s[pos] \in {"-", "+"}
         THEN LET r == ScanNumber(s, pos + 1, Len(s))
              IN IF ~IsOk(r) THEN r
                 ELSE IF s[pos] = "-" THEN Ok([n |-> 0 - r[2].n, next |-> r[2].next])
                 ELSE r
         ELSE ScanNumber(s, pos, 4)
    ELSE ScanNumber(s, pos, 2)

RECURSIVE ParseItems(_, _, _, _, _)
ParseItems(fmt, k, s, pos, parsed) ==
    IF k > Len(fmt)
    THEN IF pos <= Len(s) THEN Err(TOO_LONG) ELSE Ok(parsed)
    ELSE IF fmt[k] \in Specifiers
    THEN LET r == ScanNumeric(fmt[k], s, pos)
         IN IF ~IsOk(r) THEN r
            ELSE ParseItems(fmt, k + 1, s, r[2].next, [parsed EXCEPT ![fmt[k]] = r[2].n])
    ELSE IF pos > Len(s) THEN Err(TOO_SHORT)
    ELSE IF s[pos] /= fmt[k] THEN Err(INVALID)
    ELSE ParseItems(fmt, k + 1, s, pos + 1, parsed)

\* the scanned fields resolved to a date and a time of day; a 60th second
\* is a leap second of the 59th
Resolve(parsed) ==
    IF ~IsOk(parsed) THEN parsed
    ELSE IF /\ ValidDate(parsed[2]["%Y"], parsed[2]["%m"], parsed[2]["%d"])
            /\ parsed[2]["%H"] <= 23 /\ parsed[2]["%M"] <= 59 /\ parsed[2]["%S"] <= 60
         THEN Ok([parsed[2] EXCEPT !["%S"] = IF @ = 60 THEN 59 ELSE @])
         ELSE Err(OUT_OF_RANGE)

\* Utc.datetime_from_str(s, fmt): the fields are scanned, then resolved
datetime_from_str(s, fmt) == Resolve(ParseItems(fmt, 1, s, 1, [x \in Specifiers |-> 0]))

----------------------------------------------------------------------------
(* mod date_serializer, mod option_date_serializer *)

\* String::deserialize
StringDeserialize(j) == IF j[1] = "string" THEN Ok(j[2]) ELSE InvalidType(j, "a string")

\* serde::de::Error::custom(e)
Custom(e) == Err(e)

date_serialize_swapped(d) ==
    JStr(Format(<<"%Y", "-", "%d", "-", "%m", "T", "%H", ":", "%M", ":", "%S">>,
                and_hms(d, 0, 0, 0)))

\* date_serializer::serialize
date_serialize(d) == JStr(Format(FORMAT, and_hms(d, 0, 0, 0)))

\* date_serializer::deserialize
date_deserialize(j) ==
    LET s == StringDeserialize(j)
    IN IF ~IsOk(s) THEN s
       ELSE LET r == datetime_from_str(s[2], FORMAT)
            IN IF IsOk(r) THEN Ok(DateOf(r[2])) ELSE Custom(r[2])

\* option_date_serializer::serialize: an unset date is written as the string
\* "null", through serialize_str like a set one
option_date_serialize(o) ==
    IF IsSome(o) THEN JStr(Format(FORMAT, and_hms(o[1], 0, 0, 0)))
    ELSE JStr(<<"null">>)

----------------------------------------------------------------------------
(* The response records and their serde(Deserialize) derivations *)

F(name, key, ty) == [name |-> name, key |-> key, ty |-> ty]

\* struct Product, #[serde(rename_all = "PascalCase")], kind renamed to Type,
\* sell_start_date read with date_serializer
ProductFields ==
   <<
      F("alcohol_percentage", "AlcoholPercentage", "f64"),
      F("assortment", "Assortment", "Option<String>"),
      F("assortment_text", "AssortmentText", "Option<String>"),
      F("beverage_description_short", "BeverageDescriptionShort", "Option<String>"),
      F("bottle_text_short", "BottleTextShort", "Option<String>"),
      F("category", "Category", "Option<String>"),
      F("country", "Country", "Option<String>"),
      F("ethical_label", "EthicalLabel", "Option<String>"),
      F("is_completely_out_of_stock", "IsCompletelyOutOfStock", "bool"),
      F("is_ethical", "IsEthical", "bool"),
      F("is_in_store_search_assortment", "IsInStoreSearchAssortment", "Option<String>"),
      F("is_kosher", "IsKosher", "bool"),
      F("is_manufacturing_country", "IsManufacturingCountry", "bool"),
      F("is_news", "IsNews", "bool"),
      F("is_organic", "IsOrganic", "bool"),
      F("is_regional_restricted", "IsRegionalRestricted", "bool"),
      F("is_temporarily_out_of_stock", "IsTemporarilyOutOfStock", "Option<bool>"),
      F("is_web_launch", "IsWebLaunch", "bool"),
      F("kind", "Type", "Option<String>"),
      F("origin_level_1", "OriginLevel1", "Option<String>"),
      F("origin_level_2", "OriginLevel2", "Option<String>"),
      F("price", "Price", "f64"),
      F("producer_name", "ProducerName", "Option<String>"),
      F("product_id", "ProductId", "String"),
      F("product_name_bold", "ProductNameBold", "String"),
      F("product_name_thin", "ProductNameThin", "Option<String>"),
      F("product_number_short", "ProductNumberShort", "Option<String>"),
      F("product_number", "ProductNumber", "String"),
      F("recycle_fee", "RecycleFee", "f64"),
      F("restricted_parcel_quantity", "RestrictedParcelQuantity", "i32"),
      F("seal", "Seal", "Option<String>"),
      F("sell_start_date", "SellStartDate", "Date"),
      F("style", "Style", "Option<String>"),
      F("sub_category", "SubCategory", "Option<String>"),
      F("supplier_name", "SupplierName", "Option<String>"),
      F("taste", "Taste", "Option<String>"),
      F("usage", "Usage", "Option<String>"),
      F("vintage", "Vintage", "i32"),
      F("volume", "Volume", "f64")
   >>

\* struct ApiError
ApiErrorFields ==
   << F("error", "Error", "String"), F("message", "Message", "String") >>

\* struct ProductsWithStore
ProductsWithStoreFields ==
   << F("site_id", "SiteId", "String"),
      F("products", "Products", "Vec<ProductWithStore>") >>

\* struct ProductWithStore
ProductWithStoreFields ==
   << F("product_id", "ProductId", "String"),
      F("product_number", "ProductNumber", "String") >>

Structs == {"Product", "ApiError", "ProductsWithStore", "ProductWithStore"}
Vecs == {"Vec<Product>", "Vec<ApiError>", "Vec<ProductsWithStore>", "Vec<ProductWithStore>"}
Options == {"Option<String>", "Option<bool>"}

Fields(ty) ==
    CASE ty = "Product" -> ProductFields
      [] ty = "ApiError" -> ApiErrorFields
      [] ty = "ProductsWithStore" -> ProductsWithStoreFields
      [] ty = "ProductWithStore" -> ProductWithStoreFields

\* the type inside Vec<..> or Option<..>
Inner(ty) ==
    CASE ty = "Vec<Product>" -> "Product"
      [] ty = "Vec<ApiError>" -> "ApiError"
      [] ty = "Vec<ProductsWithStore>" -> "ProductsWithStore"
      [] ty = "Vec<ProductWithStore>" -> "ProductWithStore"
      [] ty = "Option<String>" -> "String"
      [] ty = "Option<bool>" -> "bool"

FieldNames(ty) == {Fields(ty)[k].name : k \in 1..Len(Fields(ty))}

\* the index of the field read from member key k, 0 for a key of no field
FieldIndex(ty, k) ==
    IF \E i \in 1..Len(Fields(ty)) : Fields(ty)[i].key = k
    THEN CHOOSE i \in 1..Len(Fields(ty)) : Fields(ty)[i].key = k
    ELSE 0

SetMin(S) == CHOOSE x \in S : \A y \in S : x <= y

RECURSIVE Deserialize(_, _)
RECURSIVE VisitMap(_, _, _, _, _)
RECURSIVE VisitSeq(_, _, _, _)
RECURSIVE VisitVec(_, _, _, _)

\* the derived visit_map: members in document order, a member of no field is
\* ignored, a field met twice is an error; at the end a missing Option field
\* is None and any other missing field is an error
VisitMap(ty, members, i, seen, vals) ==
    IF i > Len(members)
    THEN LET missing == {k \in 1..Len(Fields(ty)) :
                            /\ Fields(ty)[k].name \notin seen
                            /\ Fields(ty)[k].ty \notin Options}
         IN IF missing = {} THEN Ok(vals)
            ELSE Err(<<"missing field ", Fields(ty)[SetMin(missing)].key>>)
    ELSE LET k == FieldIndex(ty, members[i][1])
         IN IF k = 0 THEN VisitMap(ty, members, i + 1, seen, vals)
            ELSE LET f == Fields(ty)[k]
                 IN IF f.name \in seen THEN Err(<<"duplicate field ", f.key>>)
                    ELSE LET r == Deserialize(f.ty, members[i][2])
                         IN IF ~IsOk(r) THEN r
                            ELSE VisitMap(ty, members, i + 1, seen \cup {f.name},
                                          [vals EXCEPT ![f.name] = r[2]])

\* the derived visit_seq: one element per field, in declaration order
VisitSeq(ty, items, k, vals) ==
    IF k > Len(Fields(ty))
    THEN IF Len(items) > Len(Fields(ty)) THEN Err(<<"trailing characters">>) ELSE Ok(vals)
    ELSE IF k > Len(items) THEN Err(<<"invalid length, expected struct ", ty>>)
    ELSE LET r == Deserialize(Fields(ty)[k].ty, items[k])
         IN IF ~IsOk(r) THEN r
            ELSE VisitSeq(ty, items, k + 1, [vals EXCEPT ![Fields(ty)[k].name] = r[2]])

\* Vec<T>: every element in order, the first failure ends it
VisitVec(ty, items, k, acc) ==
    IF k > Len(items) THEN Ok(acc)
    ELSE LET r == Deserialize(ty, items[k])
         IN IF ~IsOk(r) THEN r ELSE VisitVec(ty, items, k + 1, Append(acc, r[2]))

\* T::deserialize on a JSON value
Deserialize(ty, j) ==
    CASE ty = "f64" ->
            IF j[1] = "number" THEN Ok(IF j[2].int THEN 10 * j[2].n ELSE j[2].n)
            ELSE InvalidType(j, "f64")
      [] ty = "i32" ->
            IF j[1] = "number" /\ j[2].int
            THEN IF ~j[2].wide THEN Ok(j[2].n)
                 ELSE Err(<<"invalid value: integer, expected i32">>)
            ELSE InvalidType(j, "i32")
      [] ty = "bool" -> IF j[1] = "bool" THEN Ok(j[2]) ELSE InvalidType(j, "a boolean")
      [] ty = "String" -> StringDeserialize(j)
      [] ty = "Date" -> date_deserialize(j)
      [] ty \in Options ->
            IF j[1] = "null" THEN Ok(None)
            ELSE LET r == Deserialize(Inner(ty), j)
                 IN IF IsOk(r) THEN Ok(Some(r[2])) ELSE r
      [] ty \in Vecs ->
            IF j[1] = "array" THEN VisitVec(Inner(ty), j[2], 1, <<>>)
            ELSE InvalidType(j, "a sequence")
      [] ty \in Structs ->
            IF j[1] = "object"
            THEN VisitMap(ty, j[2], 1, {}, [n \in FieldNames(ty) |-> None])
            ELSE IF j[1] = "array"
            THEN VisitSeq(ty, j[2], 1, [n \in FieldNames(ty) |-> None])
            ELSE InvalidType(j, "struct " \o ty)

\* serde_json::from_str::<T>(body): text that is no JSON fails before any type
\* is looked at
from_str(ty, text) ==
    IF text[1] = "garbage" THEN Err(<<"expected value">>) ELSE Deserialize(ty, text)

----------------------------------------------------------------------------
(* JSON text written out, as the body is shown in a message *)

RECURSIVE Join(_, _)
Join(texts, sep) ==
    IF texts = <<>> THEN <<>>
    ELSE IF Len(texts) = 1 THEN texts[1]
    ELSE texts[1] \o sep \o Join(Tail(texts), sep)

NumberText(n) ==
    IF n.wide THEN <<"2147483648+">> \o Digits(n.n)
    ELSE IF n.int THEN (IF n.n < 0 THEN <<"-">> \o Digits(0 - n.n) ELSE Digits(n.n))
    ELSE Digits(n.n \div 10) \o <<".">> \o Digits(n.n % 10)

RECURSIVE ToText(_)
ToText(j) ==
    CASE j[1] = "garbage" -> j[2]
      [] j[1] = "null" -> <<"null">>
      [] j[1] = "bool" -> IF j[2] THEN <<"true">> ELSE <<"false">>
      [] j[1] = "number" -> NumberText(j[2])
      [] j[1] = "string" -> <<"\"">> \o j[2] \o <<"\"">>
      [] j[1] = "array" ->
            <<"[">> \o Join([i \in 1..Len(j[2]) |-> ToText(j[2][i])], <<",">>) \o <<"]">>
      [] j[1] = "object" ->
            <<"{">> \o Join([i \in 1..Len(j[2]) |->
                               <<"\"", j[2][i][1], "\":">> \o ToText(j[2][i][2])], <<",">>)
                    \o <<"}">>

----------------------------------------------------------------------------
(* enum Error, Result<T, Error>, and their Display *)

NoResult == <<"none", <<>>>>
\* Ok(value)
ResultOk(x) == <<"Ok", x>>
\* Err(Error::Api(errors))
ErrorApi(errors) == <<"Api", errors>>
\* Err(Error::Reqwest(err)), by From<reqwest::Error>
ErrorReqwest(e) == <<"Reqwest", e>>

\* From<serde_json::Error>: the body is not known
ErrorParseUnknownBody(e, text) ==
    <<"Parse", [err |-> e, body |-> Garbage(<<"<unknown request body>">>)]>>

\* Err(Error::Parse { err, body })
ErrorParse(e, text) == <<"Parse", [err |-> e, body |-> text]>>

\* impl fmt::Display for ApiError
ApiErrorDisplay(e) == <<"error code: ">> \o e.error \o <<", message: ">> \o e.message

Parenthesized(errors) ==
    [i \in 1..Len(errors) |-> <<"(">> \o ApiErrorDisplay(errors[i]) \o <<")">>]

ApiErrorsDisplayNoParens(errors) ==
    CASE Len(errors) = 0 ->
            <<"API error: Got error response from API, but no error code or message">>
      [] Len(errors) = 1 -> <<"API error: ">> \o ApiErrorDisplay(errors[1])
      [] OTHER ->
            <<"API errors: ">>
                \o Join([i \in 1..Len(errors) |-> ApiErrorDisplay(errors[i])], <<", ">>)

\* the Error::Api arm of Display for Error
ApiErrorsDisplay(errors) ==
    CASE Len(errors) = 0 ->
            <<"API error: Got error response from API, but no error code or message">>
      [] Len(errors) = 1 -> <<"API error: ">> \o ApiErrorDisplay(errors[1])
      [] OTHER -> <<"API errors: ">> \o Join(Parenthesized(errors), <<", ">>)

\* impl fmt::Display for Error
ErrorDisplay(r) ==
    CASE r[1] = "Parse" ->
            <<"Serialization/deserialization error: ">> \o r[2].err
                \o <<". Response body: '">> \o ToText(r[2].body) \o <<"'">>
      [] r[1] = "Reqwest" -> <<"Network error: ">> \o r[2]
      [] r[1] = "Api" -> ApiErrorsDisplay(r[2])

----------------------------------------------------------------------------
(* Systemet::send_request, from the body text on *)

GET_PRODUCT_ENDPOINT == <<"https://api-extern.systembolaget.se/product/v1/product/">>
GET_ALL_PRODUCTS_ENDPOINT == <<"https://api-extern.systembolaget.se/product/v1/product">>
GET_PRODUCTS_WITH_STORE_ENDPOINT ==
    <<"https://api-extern.systembolaget.se/product/v1/getproductswithstore">>

\* the T each operation asks send_request for
SuccessType(o) ==
    CASE o = "get_product" -> "Product"
      [] o = "get_all_products" -> "Vec<Product>"
      [] o = "get_products_with_store" -> "Vec<ProductsWithStore>"

\* the error shape tried before T
ClassifyErrorFirst(T, text) ==
    LET second == from_str("Vec<ApiError>", text)
    IN  IF IsOk(second)
        THEN [result |-> ErrorApi(second[2]), parses |-> <<"Vec<ApiError>">>]
        ELSE LET first == from_str(T, text)
             IN IF IsOk(first)
                THEN [result |-> ResultOk(first[2]), parses |-> <<"Vec<ApiError>", T>>]
                ELSE [result |-> ErrorParse(second[2], text),
                      parses |-> <<"Vec<ApiError>", T>>]

\* the T parse ended with `?`: no second attempt
ClassifyNoFallback(T, text) ==
    LET first == from_str(T, text)
    IN  IF IsOk(first)
        THEN [result |-> ResultOk(first[2]), parses |-> <<T>>]
        ELSE [result |-> ErrorParseUnknownBody(first[2], text), parses |-> <<T>>]

\* an error response without entries taken for a body of neither shape
MatchApiErrorNonEmpty(T, text, second) ==
    IF IsOk(second) /\ second[2] /= <<>>
    THEN [result |-> ErrorApi(second[2]), parses |-> <<T, "Vec<ApiError>">>]
    ELSE [result |-> ErrorParse(<<"expected a non-empty sequence">>, text),
          parses |-> <<T, "Vec<ApiError>">>]

\* the inner match, on the body read as Vec<ApiError>; the error of the
\* first parse was dropped by the `Err(_)` pattern
MatchApiError(T, text, second) ==
    IF IsOk(second)
    THEN [result |-> ErrorApi(second[2]), parses |-> <<T, "Vec<ApiError>">>]
    ELSE [result |-> ErrorParse(second[2], text), parses |-> <<T, "Vec<ApiError>">>]

\* the outer match, on the body read as T
MatchT(T, text, first) ==
    IF IsOk(first)
    THEN [result |-> ResultOk(first[2]), parses |-> <<T>>]
    ELSE MatchApiError(T, text, from_str("Vec<ApiError>", text))

\* the match of send_request on the body text: what it returns, and the
\* parses it made on the way
Classify(T, text) == MatchT(T, text, from_str(T, text))

----------------------------------------------------------------------------
(* Response bodies the server may send *)

\* a well-formed product object: every required member, as the API writes it
ProductObj(id) ==
    JObj(<< Member("ProductId", JStr(id)),
            Member("ProductNumber", JStr(id)),
            Member("ProductNameBold", JStr(<<"Test">>)),
            Member("AlcoholPercentage", JFloat(125)),
            Member("Price", JInt(99)),
            Member("RecycleFee", JFloat(5)),
            Member("RestrictedParcelQuantity", JInt(0)),
            Member("SellStartDate",
                   JStr(<<"2", "0", "2", "0", "-", "0", "1", "-", "0", "1", "T",
                          "0", "0", ":", "0", "0", ":", "0", "0">>)),
            Member("Vintage", JInt(2019)),
            Member("Volume", JInt(750)),
            Member("IsCompletelyOutOfStock", JBool(FALSE)),
            Member("IsEthical", JBool(FALSE)),
            Member("IsKosher", JBool(FALSE)),
            Member("IsManufacturingCountry", JBool(TRUE)),
            Member("IsNews", JBool(FALSE)),
            Member("IsOrganic", JBool(FALSE)),
            Member("IsRegionalRestricted", JBool(FALSE)),
            Member("IsWebLaunch", JBool(FALSE)) >>)

\* object o with one more member at its end
With(o, k, val) == JObj(Append(o[2], Member(k, val)))

\* object o without its members named k
Without(o, k) == JObj(SelectSeq(o[2], LAMBDA m : m[1] /= k))

\* object o with the value of its members named k replaced
Replaced(o, k, val) ==
    JObj([i \in 1..Len(o[2]) |-> IF o[2][i][1] = k THEN Member(k, val) ELSE o[2][i]])

\* the members' values alone, in order: the array form of a record
AsArray(o) == JArr([i \in 1..Len(o[2]) |-> o[2][i][2]])

ProductIds == {<<"1">>, <<"507795">>}

ErrorCode(i) == <<"E">> \o Digits(i)
ErrorMessage(i) == <<"message ">> \o Digits(i)

\* one entry of an error response
ApiErrorObj(i) ==
    JObj(<< Member("Error", JStr(ErrorCode(i))), Member("Message", JStr(ErrorMessage(i))) >>)

\* a product object that carries the two members of an ApiError as well
AmbiguousProduct(id) ==
    With(With(ProductObj(id), "Error", JStr(ErrorCode(1))), "Message", JStr(ErrorMessage(1)))

StubObj(id) ==
    JObj(<< Member("ProductId", JStr(id)), Member("ProductNumber", JStr(id)) >>)

StoreObj(n) ==
    JObj(<< Member("SiteId", JStr(<<"0102">>)),
            Member("Products", JArr([i \in 1..n |-> StubObj(Digits(i))])) >>)

BadValues ==
    { JNull, JLong(0), JFloat(15), JBool(TRUE), JStr(<<"x">>),
      JStr(<<"2", "0", "2", "0", "-", "1", "3", "-", "0", "1", "T",
             "0", "0", ":", "0", "0", ":", "0", "0">>),
      JArr(<<>>) }

\* single product objects, good and bad
ProductBodies ==
    LET p == ProductObj(<<"1">>)
        keys == {p[2][i][1] : i \in 1..Len(p[2])}
    IN  {ProductObj(id) : id \in ProductIds}
        \cup {AmbiguousProduct(id) : id \in ProductIds}
        \cup {Without(p, k) : k \in keys}
        \cup {Replaced(p, k, val) : k \in {"ProductId", "Price", "Vintage", "IsNews",
                                            "SellStartDate"},
                                    val \in BadValues}
        \cup { With(p, "Type", JStr(<<"Rott vin">>)),
               With(p, "Country", JNull),
               With(p, "Unknown", JInt(1)),
               With(p, "ProductId", JStr(<<"2">>)),
               With(p, "IsTemporarilyOutOfStock", JStr(<<"no">>)),
               AsArray(p) }

\* lists of products
ProductListBodies ==
    {JArr([i \in 1..n |-> ProductObj(Digits(i))]) : n \in 0..MaxItems}
    \cup {JArr([i \in 1..n |-> AmbiguousProduct(Digits(i))]) : n \in 1..MaxItems}
    \cup {JArr([i \in 1..n |-> IF i = n THEN Without(ProductObj(Digits(i)), "Price")
                                ELSE ProductObj(Digits(i))]) : n \in 1..MaxItems}

\* lists of stores
StoreListBodies ==
    {JArr([i \in 1..n |-> StoreObj(k)]) : n \in 0..MaxItems, k \in 0..MaxItems}
    \cup {JArr(<<With(With(StoreObj(k), "Error", JStr(ErrorCode(1))),
                      "Message", JStr(ErrorMessage(1)))>>) : k \in 0..MaxItems}
    \cup {JArr(<<Without(StoreObj(1), "SiteId")>>),
          JArr(<<Replaced(StoreObj(1), "Products", JNull)>>)}

\* error responses: entries in any order, with repeats
ErrorBodies ==
    UNION {{JArr([i \in 1..n |-> ApiErrorObj(f[i])]) : f \in [1..n -> 1..MaxErrors]}
              : n \in 0..MaxErrors}
    \cup { JArr(<<AsArray(ApiErrorObj(1))>>),
           JArr(<<ApiErrorObj(1), AsArray(ApiErrorObj(2))>>),
           JArr(<<Without(ApiErrorObj(1), "Message")>>),
           JArr(<<ApiErrorObj(1), Replaced(ApiErrorObj(2), "Message", JNull)>>),
           JArr(<<With(ApiErrorObj(1), "Detail", JInt(1))>>),
           JArr(<<JArr(<<JStr(ErrorCode(1)), JStr(ErrorMessage(1)), JStr(<<"more">>)>>)>>),
           ApiErrorObj(1) }

\* bodies of neither shape
OtherBodies ==
    { Garbage(<<"not json">>), Garbage(<<"<html>Bad Gateway</html>">>), Garbage(<<>>),
      JStr(<<"not json">>), JNull, JInt(1), JBool(TRUE), JObj(<<>>),
      JArr(<<JInt(1)>>), JArr(<<JNull>>) }

Bodies == ProductBodies \cup ProductListBodies \cup StoreListBodies
            \cup ErrorBodies \cup OtherBodies

NoBody == <<"none", <<>>>>

----------------------------------------------------------------------------
(* The client: one call at a time, from the call to its return *)

ClientInit ==
    /\ pc = "idle"
    /\ op = "none"
    /\ url = <<>>
    /\ gets = 0
    /\ parses = <<>>
    /\ body = NoBody
    /\ result = NoResult
    /\ shown = <<>>

\* self.client.get(url).send(): the one GET of send_request is issued
StartRequest(o, u) ==
    /\ pc = "idle"
    /\ pc' = "sending"
    /\ op' = o
    /\ url' = u
    /\ gets' = gets + 1
    /\ UNCHANGED <<parses, body, result, shown>>

\* get_product(id): the id is appended to the endpoint
get_product ==
    \E id \in ProductIds : StartRequest("get_product", GET_PRODUCT_ENDPOINT \o id)

get_all_products == StartRequest("get_all_products", GET_ALL_PRODUCTS_ENDPOINT)

get_products_with_store ==
    StartRequest("get_products_with_store", GET_PRODUCTS_WITH_STORE_ENDPOINT)

\* the request is sent again after a transport error
TransportFailureRetried(e) ==
    IF gets < 2 THEN [pc |-> "sending", gets |-> gets + 1, result |-> NoResult]
    ELSE [pc |-> "done", gets |-> gets, result |-> ErrorReqwest(e)]

\* `?` on a reqwest::Error: send_request returns it at once, converted by From
TransportFailure(e) == [pc |-> "done", gets |-> gets, result |-> ErrorReqwest(e)]

\* .send().await fails
send_failed ==
    /\ pc = "sending"
    /\ \E e \in {<<"error sending request">>, <<"operation timed out">>} :
          LET next == TransportFailure(e)
          IN  pc' = next.pc /\ gets' = next.gets /\ result' = next.result
    /\ UNCHANGED <<op, url, parses, body, shown>>

\* .send().await yields the response
response_received ==
    /\ pc = "sending"
    /\ pc' = "reading"
    /\ UNCHANGED <<op, url, gets, parses, body, result, shown>>

\* .text().await fails
text_failed ==
    /\ pc = "reading"
    /\ LET next == TransportFailure(<<"error decoding response body">>)
       IN  pc' = next.pc /\ gets' = next.gets /\ result' = next.result
    /\ UNCHANGED <<op, url, parses, body, shown>>

\* send_request returns c for the body b
Returned(b, c) ==
    /\ body' = b
    /\ result' = c.result
    /\ parses' = c.parses

\* .text().await yields the body; the match classifies it and the call returns
text_received ==
    /\ pc = "reading"
    /\ \E b \in Bodies : Returned(b, Classify(SuccessType(op), b))
    /\ pc' = "done"
    /\ UNCHANGED <<op, url, gets, shown>>

\* the caller formats the error it got
fmt ==
    /\ pc = "done"
    /\ result[1] \in {"Api", "Parse", "Reqwest"}
    /\ shown' = ErrorDisplay(result)
    /\ pc' = "shown"
    /\ UNCHANGED <<op, url, gets, parses, body, result>>

\* the result is dropped; the client is ready for the next call
finish ==
    /\ pc \in {"done", "shown"}
    /\ pc' = "idle"
    /\ op' = "none"
    /\ url' = <<>>
    /\ gets' = 0
    /\ parses' = <<>>
    /\ body' = NoBody
    /\ result' = NoResult
    /\ shown' = <<>>

----------------------------------------------------------------------------
(* SearchRequest: the record, its setters, its serde(Serialize) derivation *)

\* struct SearchRequest: no rename, the two dates written with
\* option_date_serializer
SearchRequestFields ==
   <<
      F("alcohol_percentage_max", "alcohol_percentage_max", "Option<f64>"),
      F("alcohol_percentage_min", "alcohol_percentage_min", "Option<f64>"),
      F("assortment_text", "assortment_text", "Option<String>"),
      F("bottle_type_group", "bottle_type_group", "Option<String>"),
      F("country", "country", "Option<String>"),
      F("csr", "csr", "Option<String>"),
      F("kind", "kind", "Option<String>"),
      F("news", "news", "Option<String>"),
      F("origin_level_1", "origin_level_1", "Option<String>"),
      F("origin_level_2", "origin_level_2", "Option<String>"),
      F("other_selections", "other_selections", "Option<String>"),
      F("page", "page", "Option<i32>"),
      F("price_max", "price_max", "Option<f64>"),
      F("price_min", "price_min", "Option<f64>"),
      F("seal", "seal", "Option<String>"),
      F("search_query", "search_query", "Option<String>"),
      F("sell_start_date_from", "sell_start_date_from", "Option<Date> with option_date_serializer"),
      F("sell_start_date_to", "sell_start_date_to", "Option<Date> with option_date_serializer"),
      F("sort_by", "sort_by", "Option<SortKey>"),
      F("sort_direction", "sort_direction", "Option<SortDirection>"),
      F("style", "style", "Option<String>"),
      F("sub_category", "sub_category", "Option<String>"),
      F("vintage", "vintage", "Option<String>")
   >>

SearchRequestNames == {SearchRequestFields[i].name : i \in 1..Len(SearchRequestFields)}

\* enum SortKey, #[repr(i32)]
SortKeys == {"Price", "Name", "Volume", "Vintage", "Rank", "City", "SellStartDate",
             "DisplayName"}
SortKeyRepr(k) ==
    CASE k = "Price" -> 0 [] k = "Name" -> 1 [] k = "Volume" -> 2 [] k = "Vintage" -> 3
      [] k = "Rank" -> 4 [] k = "City" -> 5 [] k = "SellStartDate" -> 6
      [] k = "DisplayName" -> 7

\* enum SortDirection, #[repr(i32)]
SortDirections == {"Ascending", "Descending"}
SortDirectionRepr(d) == CASE d = "Ascending" -> 0 [] d = "Descending" -> 1

\* SearchRequest::default(): every field None
Default == [n \in SearchRequestNames |-> None]

\* SearchRequest::new()
New == Default

\* SearchRequest::validate
validate(r) == r /= Default

\* price_min written into the neighbouring field
price_min_sets_max(r, price_min_) == [r EXCEPT !["price_max"] = price_min_]

\* the setters, one per field
alcohol_percentage_max(r, alcohol_percentage_max_) == [r EXCEPT !["alcohol_percentage_max"] = alcohol_percentage_max_]
alcohol_percentage_min(r, alcohol_percentage_min_) == [r EXCEPT !["alcohol_percentage_min"] = alcohol_percentage_min_]
assortment_text(r, assortment_text_) == [r EXCEPT !["assortment_text"] = assortment_text_]
bottle_type_group(r, bottle_type_group_) == [r EXCEPT !["bottle_type_group"] = bottle_type_group_]
country(r, country_) == [r EXCEPT !["country"] = country_]
csr(r, csr_) == [r EXCEPT !["csr"] = csr_]
kind(r, kind_) == [r EXCEPT !["kind"] = kind_]
news(r, news_) == [r EXCEPT !["news"] = news_]
origin_level_1(r, origin_level_1_) == [r EXCEPT !["origin_level_1"] = origin_level_1_]
origin_level_2(r, origin_level_2_) == [r EXCEPT !["origin_level_2"] = origin_level_2_]
other_selections(r, other_selections_) == [r EXCEPT !["other_selections"] = other_selections_]
page(r, page_) == [r EXCEPT !["page"] = page_]
price_max(r, price_max_) == [r EXCEPT !["price_max"] = price_max_]
price_min(r, price_min_) == [r EXCEPT !["price_min"] = price_min_]
seal(r, seal_) == [r EXCEPT !["seal"] = seal_]
search_query(r, search_query_) == [r EXCEPT !["search_query"] = search_query_]
sell_start_date_from(r, sell_start_date_from_) == [r EXCEPT !["sell_start_date_from"] = sell_start_date_from_]
sell_start_date_to(r, sell_start_date_to_) == [r EXCEPT !["sell_start_date_to"] = sell_start_date_to_]
sort_by(r, sort_by_) == [r EXCEPT !["sort_by"] = sort_by_]
sort_direction(r, sort_direction_) == [r EXCEPT !["sort_direction"] = sort_direction_]
style(r, style_) == [r EXCEPT !["style"] = style_]
sub_category(r, sub_category_) == [r EXCEPT !["sub_category"] = sub_category_]
vintage(r, vintage_) == [r EXCEPT !["vintage"] = vintage_]

\* the derived Serialize of one field
SerializeField(ty, val) ==
    IF ty = "Option<Date> with option_date_serializer" THEN option_date_serialize(val)
    ELSE IF ~IsSome(val) THEN JNull
    ELSE CASE ty = "Option<f64>" -> JFloat(val[1])
           [] ty = "Option<String>" -> JStr(val[1])
           [] ty = "Option<i32>" -> JInt(val[1])
           [] ty = "Option<SortKey>" -> JInt(SortKeyRepr(val[1]))
           [] ty = "Option<SortDirection>" -> JInt(SortDirectionRepr(val[1]))

\* the derived Serialize of SearchRequest: one member per field, in
\* declaration order, under the field's own name
SearchRequestSerialize(r) ==
    JObj([i \in 1..Len(SearchRequestFields) |->
            Member(SearchRequestFields[i].key,
                   SerializeField(SearchRequestFields[i].ty, r[SearchRequestFields[i].name]))])

\* the arguments a caller passes to a setter
Values(ty) ==
    CASE ty = "Option<f64>" -> {10, 995}
      [] ty = "Option<String>" -> {<<"a">>, <<"b">>}
      [] ty = "Option<i32>" -> {1, 2}
      [] ty = "Option<Date>" -> {[y |-> YearLo, m |-> 1, d |-> 1],
                                 [y |-> YearLo, m |-> 12, d |-> 31]}
      [] ty = "Option<SortKey>" -> SortKeys
      [] ty = "Option<SortDirection>" -> SortDirections

Args(ty) == {None} \cup {Some(x) : x \in Values(ty)}

NoJson == <<"none", <<>>>>
Never == <<>>

BuilderInit ==
    /\ req = New
    /\ ncalls = 0
    /\ last = [n \in SearchRequestNames |-> Never]
    /\ json = NoJson

\* one more setter call in the chain: r is what the setter returned for v
Chain(setter, r, v) ==
    /\ ncalls < MaxSetterCalls
    /\ req' = r
    /\ ncalls' = ncalls + 1
    /\ last' = [last EXCEPT ![setter] = <<v>>]
    /\ json' = NoJson

\* a fresh SearchRequest::new()
new ==
    /\ ncalls > 0 \/ json /= NoJson
    /\ req' = New
    /\ ncalls' = 0
    /\ last' = [n \in SearchRequestNames |-> Never]
    /\ json' = NoJson

\* serde_json serialization of the request built so far
serialize_request ==
    /\ json = NoJson
    /\ json' = SearchRequestSerialize(req)
    /\ UNCHANGED <<req, ncalls, last>>

\* any one setter is called with any argument of its type
SetterCall ==
    \/ \E v \in Args("Option<f64>") : Chain("alcohol_percentage_max", alcohol_percentage_max(req, v), v)
    \/ \E v \in Args("Option<f64>") : Chain("alcohol_percentage_min", alcohol_percentage_min(req, v), v)
    \/ \E v \in Args("Option<String>") : Chain("assortment_text", assortment_text(req, v), v)
    \/ \E v \in Args("Option<String>") : Chain("bottle_type_group", bottle_type_group(req, v), v)
    \/ \E v \in Args("Option<String>") : Chain("country", country(req, v), v)
    \/ \E v \in Args("Option<String>") : Chain("csr", csr(req, v), v)
    \/ \E v \in Args("Option<String>") : Chain("kind", kind(req, v), v)
    \/ \E v \in Args("Option<String>") : Chain("news", news(req, v), v)
    \/ \E v \in Args("Option<String>") : Chain("origin_level_1", origin_level_1(req, v), v)
    \/ \E v \in Args("Option<String>") : Chain("origin_level_2", origin_level_2(req, v), v)
    \/ \E v \in Args("Option<String>") : Chain("other_selections", other_selections(req, v), v)
    \/ \E v \in Args("Option<i32>") : Chain("page", page(req, v), v)
    \/ \E v \in Args("Option<f64>") : Chain("price_max", price_max(req, v), v)
    \/ \E v \in Args("Option<f64>") : Chain("price_min", price_min(req, v), v)
    \/ \E v \in Args("Option<String>") : Chain("seal", seal(req, v), v)
    \/ \E v \in Args("Option<String>") : Chain("search_query", search_query(req, v), v)
    \/ \E v \in Args("Option<Date>") : Chain("sell_start_date_from", sell_start_date_from(req, v), v)
    \/ \E v \in Args("Option<Date>") : Chain("sell_start_date_to", sell_start_date_to(req, v), v)
    \/ \E v \in Args("Option<SortKey>") : Chain("sort_by", sort_by(req, v), v)
    \/ \E v \in Args("Option<SortDirection>") : Chain("sort_direction", sort_direction(req, v), v)
    \/ \E v \in Args("Option<String>") : Chain("style", style(req, v), v)
    \/ \E v \in Args("Option<String>") : Chain("sub_category", sub_category(req, v), v)
    \/ \E v \in Args("Option<String>") : Chain("vintage", vintage(req, v), v)

----------------------------------------------------------------------------
(* The mandatory date codec at work: a date is written, the text is read *)

Dates ==
    {[y |-> y, m |-> m, d |-> d] : y \in YearLo..YearHi, m \in 1..12, d \in 1..31}
        \ {x \in [y : YearLo..YearHi, m : 1..12, d : 1..31] : ~ValidDate(x.y, x.m, x.d)}

NoDate == [y |-> 0, m |-> 0, d |-> 0]
NoWire == <<"none", <<>>>>

\* text s with position i replaced, removed, or cut after, or with c added
ReplaceAt(s, i, c) == [s EXCEPT ![i] = c]
RemoveAt(s, i) == SubSeq(s, 1, i - 1) \o SubSeq(s, i + 1, Len(s))

\* what may arrive in place of the text that serialize wrote
Foreign(s) ==
    {JStr(ReplaceAt(s, i, c)) : i \in 1..Len(s), c \in {"x", "-", "+", "5", ":"}}
    \cup {JStr(RemoveAt(s, i)) : i \in 1..Len(s)}
    \cup {JStr(SubSeq(s, 1, k)) : k \in 0..Len(s)}
    \cup {JStr(s \o <<c>>) : c \in {"0", "Z", " "}}
    \cup {JStr(<<"null">>), JNull, JInt(20200101), JArr(<<JStr(s)>>)}

DateInit ==
    /\ date \in Dates
    /\ wire = NoWire
    /\ decoded = NoResult

\* date_serializer::serialize writes the date
serialize_date ==
    /\ date /= NoDate
    /\ wire = NoWire
    /\ wire' = date_serialize(date)
    /\ UNCHANGED <<date, decoded>>

\* some other text arrives instead
foreign_text ==
    /\ date /= NoDate
    /\ wire /= NoWire
    /\ decoded = NoResult
    /\ wire' \in Foreign(wire[2])
    /\ date' = NoDate
    /\ UNCHANGED decoded

\* date_serializer::deserialize reads the text
deserialize_date ==
    /\ wire /= NoWire
    /\ decoded = NoResult
    /\ decoded' = date_deserialize(wire)
    /\ UNCHANGED <<date, wire>>

----------------------------------------------------------------------------
(* Specifications *)

\* no date is being written (the client and the builder on their own)
DateIdle ==
    /\ date = NoDate
    /\ wire = NoWire
    /\ decoded = NoResult

Init == ClientInit /\ BuilderInit /\ DateIdle

\* a calendar date is handed to the codec
InitDate == ClientInit /\ BuilderInit /\ DateInit

ClientNext ==
    \/ get_product
    \/ get_all_products
    \/ get_products_with_store
    \/ send_failed
    \/ response_received
    \/ text_failed
    \/ text_received
    \/ fmt
    \/ finish

Next == ClientNext /\ UNCHANGED <<builderVars, dateVars>>

\* the client
Spec == Init /\ [][Next]_vars

BuilderNext ==
    /\ \/ SetterCall
       \/ new
       \/ serialize_request
    /\ UNCHANGED <<clientVars, dateVars>>

\* the search query builder
SpecBuilder == Init /\ [][BuilderNext]_vars

DateNext ==
    /\ \/ serialize_date
       \/ foreign_text
       \/ deserialize_date
    /\ UNCHANGED <<clientVars, builderVars>>

\* the date codec
SpecDate == InitDate /\ [][DateNext]_vars

----------------------------------------------------------------------------
(* Properties of the client *)

\* the call has returned what the classifier made of a received body
Classified == pc \in {"done", "shown"} /\ body[1] /= "none"

T == SuccessType(op)

\* C1: a body that parses as T is returned as Ok with that T value, also when
\* it parses as a sequence of ApiError too; the ApiError parse is made only
\* after the T parse has failed
C1_Precedence ==
    Classified =>
        /\ IsOk(from_str(T, body)) =>
              /\ result = ResultOk(from_str(T, body)[2])
              /\ parses = <<T>>
        /\ parses[1] = T
        /\ (\E i \in 1..Len(parses) : parses[i] = "Vec<ApiError>") =>
              /\ parses = <<T, "Vec<ApiError>">>
              /\ ~IsOk(from_str(T, body))

\* a body of both shapes, with one error entry or more, came back as Ok
C1_Witness ==
    /\ Classified
    /\ IsOk(from_str(T, body))
    /\ IsOk(from_str("Vec<ApiError>", body))
    /\ Len(from_str("Vec<ApiError>", body)[2]) >= 1
    /\ result[1] = "Ok"

\* the error code an entry of an error response carries, in either form of
\* the entry
EntryCode(j) ==
    IF j[1] = "array" THEN j[2][1][2]
    ELSE LET i == CHOOSE i \in 1..Len(j[2]) : j[2][i][1] = "Error" IN j[2][i][2][2]

\* C2: a body that fails as T and parses as a sequence of ApiError is returned
\* as Error::Api with exactly that sequence: same entries, order and count;
\* never as a Parse error
C2_Fallback ==
    (Classified /\ ~IsOk(from_str(T, body)) /\ IsOk(from_str("Vec<ApiError>", body))) =>
        /\ result[1] = "Api"
        /\ result = ErrorApi(from_str("Vec<ApiError>", body)[2])
        /\ Len(result[2]) = Len(body[2])
        /\ \A i \in 1..Len(result[2]) : result[2][i].error = EntryCode(body[2][i])

\* an error response of two different entries came back as Error::Api
C2_Witness ==
    /\ Classified
    /\ result[1] = "Api"
    /\ Len(result[2]) >= 2
    /\ result[2][1] /= result[2][2]
    /\ ~IsOk(from_str(T, body))

\* C3: a body of neither shape is returned as Error::Parse holding the body
\* as received, never the placeholder of From<serde_json::Error>
C3_Verbatim ==
    (Classified /\ ~IsOk(from_str(T, body)) /\ ~IsOk(from_str("Vec<ApiError>", body))) =>
        /\ result[1] = "Parse"
        /\ result[2].body = body
        /\ result[2].body /= Garbage(<<"<unknown request body>">>)

\* text that is no JSON came back as a Parse error
C3_Witness ==
    /\ Classified
    /\ body = Garbage(<<"not json">>)
    /\ result[1] = "Parse"

\* C4: the Parse error carries the error of the first attempt, the parse as T
C4_FirstError ==
    (Classified /\ result[1] = "Parse") => result[2].err = from_str(T, body)[2]

ApiErrorValue(e) == DOMAIN e = {"error", "message"}

\* C5, the sequence non-empty: the result for a received body is a T, a non-empty sequence
\* of ApiError, or a parse failure
C5_NonEmpty ==
    Classified =>
        /\ result[1] \in {"Ok", "Api", "Parse"}
        /\ result[1] = "Api" => Len(result[2]) >= 1

\* C5, the sequence possibly empty: the result for a received body is a T, a sequence of
\* ApiError that may be empty, or a parse failure; the sequence is empty
\* exactly for the body [] where T is Product
C5_PossiblyEmpty ==
    Classified =>
        /\ result[1] \in {"Ok", "Api", "Parse"}
        /\ result[1] = "Ok" => result[2] = from_str(T, body)[2]
        /\ result[1] = "Api" =>
              /\ \A i \in 1..Len(result[2]) : ApiErrorValue(result[2][i])
              /\ Len(result[2]) = 0 <=> (body = JArr(<<>>) /\ T = "Product")
        /\ (body = JArr(<<>>) /\ T = "Product") => result = ErrorApi(<<>>)

\* get_product got the body [] and returned an Api error without entries
C5_Witness ==
    /\ Classified
    /\ op = "get_product"
    /\ body = JArr(<<>>)
    /\ result = ErrorApi(<<>>)

\* C6: a call issues one GET and never a second; a transport failure ends it
\* with Error::Reqwest before any parse; a body is classified only once it
\* has been received
C6_OneRequest ==
    /\ pc /= "idle" => gets = 1
    /\ pc = "idle" => gets = 0
    /\ pc \in {"sending", "reading"} => (parses = <<>> /\ result = NoResult /\ body = NoBody)
    /\ pc \in {"done", "shown"} =>
          /\ result[1] \in {"Ok", "Api", "Parse", "Reqwest"}
          /\ result[1] = "Reqwest" <=> body = NoBody
          /\ result[1] = "Reqwest" => parses = <<>>
          /\ result[1] /= "Reqwest" => parses /= <<>>

\* reading the body failed: the call ended with Error::Reqwest after its one GET
C6_Witness ==
    /\ pc = "done"
    /\ result = ErrorReqwest(<<"error decoding response body">>)
    /\ gets = 1
    /\ parses = <<>>

\* an entry's form: error code: E, message: M
EntryForm(e) == <<"error code: ">> \o e.error \o <<", message: ">> \o e.message

\* the first n entries, each in parentheses, in order, ", " between them
RECURSIVE ManyForms(_, _)
ManyForms(errors, n) ==
    IF n = 1 THEN <<"(">> \o EntryForm(errors[1]) \o <<")">>
    ELSE ManyForms(errors, n - 1) \o <<", ", "(">> \o EntryForm(errors[n]) \o <<")">>

\* C10: an Api error is displayed by its number of entries: none, a fixed
\* message; one, the entry's form; two or more, every entry's form in
\* parentheses, in order, joined with ", "
C10_Display ==
    (pc = "shown" /\ result[1] = "Api") =>
        /\ Len(result[2]) = 0 =>
              shown = <<"API error: Got error response from API, but no error code or message">>
        /\ Len(result[2]) = 1 => shown = <<"API error: ">> \o EntryForm(result[2][1])
        /\ Len(result[2]) >= 2 =>
              shown = <<"API errors: ">> \o ManyForms(result[2], Len(result[2]))

\* an Api error of three entries, not all the same, was displayed
C10_Witness ==
    /\ pc = "shown"
    /\ result[1] = "Api"
    /\ Len(result[2]) >= 3
    /\ result[2][1] /= result[2][3]

----------------------------------------------------------------------------
(* Properties of the search query builder *)

\* C7: after any chain of setter calls each field holds the argument of the
\* latest call of its own setter, None included, and is unset if its setter
\* was never called: a setter changes its own field and no other
C7_Frame ==
    \A n \in SearchRequestNames :
        req[n] = IF last[n] = Never THEN None ELSE last[n][1]

\* a field was set and then unset, another one holds a value
C7_Witness ==
    /\ ncalls = MaxSetterCalls
    /\ \E n, m \in SearchRequestNames :
          /\ n /= m
          /\ last[n] = <<None>>
          /\ IsSome(req[m])
          /\ Cardinality({k \in SearchRequestNames : last[k] /= Never}) = 2

\* C8: the serialized request has a member for every field, and the member
\* of an unset field, the two dates included, is the JSON null
C8_UnsetIsNull ==
    json[1] /= "none" =>
        /\ Len(json[2]) = Len(SearchRequestFields)
        /\ \A i \in 1..Len(SearchRequestFields) :
              /\ json[2][i][1] = SearchRequestFields[i].name
              /\ req[SearchRequestFields[i].name] = None => json[2][i][2] = JNull

----------------------------------------------------------------------------
(* Properties of the date codec *)

\* the text is YYYY-MM-DDT00:00:00 for the date d
MidnightText(s, d) ==
    /\ Len(s) = 19
    /\ \A i \in {1, 2, 3, 4, 6, 7, 9, 10} : IsDigit(s[i])
    /\ s[5] = "-" /\ s[8] = "-"
    /\ SubSeq(s, 11, 19) = <<"T", "0", "0", ":", "0", "0", ":", "0", "0">>
    /\ d.y = 1000 * DigitVal(s[1]) + 100 * DigitVal(s[2]) + 10 * DigitVal(s[3]) + DigitVal(s[4])
    /\ d.m = 10 * DigitVal(s[6]) + DigitVal(s[7])
    /\ d.d = 10 * DigitVal(s[9]) + DigitVal(s[10])

AllDigits(s, from, n) == \A i \in from..(from + n - 1) : IsDigit(s[i])

\* the text is of the pattern: a year (of one to four digits, or signed),
\* month, day, hour, minute and second of one or two digits each, with the
\* literals - - T : : between them and nothing before or after
MatchesPattern(j) ==
    /\ j[1] = "string"
    /\ LET s == j[2]
       IN \E sign \in {0, 1}, ly \in 1..Len(s) :
          \E lm \in 1..2, ld \in 1..2, lh \in 1..2, lmi \in 1..2, ls \in 1..2 :
             LET m0 == sign + ly + 2
                 d0 == m0 + lm + 1
                 h0 == d0 + ld + 1
                 mi0 == h0 + lh + 1
                 s0 == mi0 + lmi + 1
             IN  /\ Len(s) = s0 + ls - 1
                 /\ sign = 1 => s[1] \in {"-", "+"}
                 /\ sign = 0 => ly <= 4
                 /\ AllDigits(s, sign + 1, ly) /\ s[m0 - 1] = "-"
                 /\ AllDigits(s, m0, lm) /\ s[d0 - 1] = "-"
                 /\ AllDigits(s, d0, ld) /\ s[h0 - 1] = "T"
                 /\ AllDigits(s, h0, lh) /\ s[mi0 - 1] = ":"
                 /\ AllDigits(s, mi0, lmi) /\ s[s0 - 1] = ":"
                 /\ AllDigits(s, s0, ls)

====
